---- MODULE Spec2Model ----
(***************************************************************************)
(* Model of the missile-defence simulation of src/engine.cpp: the entity   *)
(* classes EnemyTarget and DefenseMissile, updateEntities, detectionTask,  *)
(* launchMissile and the event loop of main.                               *)
(*                                                                         *)
(* Numbers.  The program computes in float.  The model computes in exact   *)
(* fixed point: a length is an integer number of 1/FPS units, a time an    *)
(* integer number of 1/FPS seconds (one timer tick), a speed an integer    *)
(* number of units per second.  With these units  x += speed * deltaTime   *)
(* is exact.  The only rounding is in updateVelocity, where the velocity   *)
(* components are rounded to the nearest unit per second.                  *)
(***************************************************************************)
EXTENDS Integers, Sequences, FiniteSets

VARIABLES
  enemyTargets,      \* the vector of targets, in collection order
  defenseMissiles,   \* the vector of missiles, in collection order
  nextID,            \* EnemyTarget::nextID
  nextRef,           \* allocation count of target objects (object identity)
  nextMid,           \* allocation count of missile objects (object identity)
  created,           \* history: the ids given to targets, in creation order
  dataMutex,         \* TRUE while the mutex is held
  pc,                \* position of the running thread
  ret,               \* where the function being executed returns to
  deltaTime,         \* the argument of the running updateEntities call
  enemySpawnTimer,   \* main: accumulators, in ticks
  detectionTimer,
  redraw,            \* main: redraw
  running,           \* main: running
  ticks,             \* history: timer events handled
  fires,             \* history: SPACE key events handled
  calls              \* history: calls made by the test harness

vars == <<enemyTargets, defenseMissiles, nextID, nextRef, nextMid, created,
          dataMutex, pc, ret, deltaTime, enemySpawnTimer, detectionTimer,
          redraw, running, ticks, fires, calls>>

-----------------------------------------------------------------------------
(* Program constants *)

FPS == 60
SCREEN_WIDTH == 800
SCREEN_HEIGHT == 600
missileSpeed == 200
detectionRange == 500
collisionRadius2 == 225
enemySpawnInterval == 2 * FPS
detectionInterval == FPS \div 2

\* a length of u whole units
U(u) == u * FPS
sensorX == U(SCREEN_WIDTH)
sensorY == U(SCREEN_HEIGHT) \div 2

-----------------------------------------------------------------------------
(* Bounds of the model *)

MaxTicks == 450        \* timer events handled in one run of main
MaxFires == 1          \* SPACE key events handled in one run of main
MaxTestCalls == 5      \* calls made in one run of the test harness
RunTicks == 870        \* timer events handled in the long run of main

\* the values drawn for rand() in the spawn: y in 0..599, speedX in 50..99
SpawnYs == {100, 300}
SpawnSpeeds == {50, 99}
\* the SPACE key is pressed only while this many timer events have been handled
FireTicks == {5, 121, 125, 241}

\* the long run of main: the values rand() yields for the spawns, in order,
\* as <<y, speedX>>; the third target crosses the field in 500 ticks
RunTargets ==
  <<<<28, 51>>, <<593, 51>>, <<300, 96>>, <<0, 50>>, <<0, 50>>, <<0, 50>>, <<0, 50>>>>
\* and the SPACE key is pressed when the third target has had 500 updates
RunFireTicks == {3 * enemySpawnInterval + (U(SCREEN_WIDTH) \div 96) - 1}

\* test harness: EnemyTarget(x, y, speedX, speedY), in whole units
TestTargets ==
  { <<100, 100, 0, 0>>,      \* stationary, out of detection range
    <<780, 300, 20, 0>>,     \* reaches x = 800, then leaves on the right
    <<300, 300, 0, 0>>,      \* at distance 500 of the sensor
    <<-10, 580, -5, 20>>,    \* left of the field, reaches y = 600, then leaves
    <<300, 10, 0, -20>>,     \* leaves the field at the top
    <<-5, 100, 0, 0>> }      \* stationary, left of the field
\* test harness: the start of a missile, in whole units
TestStarts == { <<0, 100>>, <<300, 100>>, <<800, 300>> }
\* test harness: deltaTime, in ticks (1/FPS s and 1 s)
TestDts == {1, FPS}

-----------------------------------------------------------------------------
(* Arithmetic *)

Abs(n) == IF n < 0 THEN -n ELSE n
Max(a, b) == IF a > b THEN a ELSE b
Sgn(n) == IF n < 0 THEN -1 ELSE 1

\* n / d rounded to the nearest integer, halves away from zero (d > 0)
RoundDiv(n, d) == Sgn(n) * ((2 * Abs(n) + d) \div (2 * d))

\* n / d rounded toward zero (d > 0)
TruncDiv(n, d) == Sgn(n) * (Abs(n) \div d)

RECURSIVE SqrtIter(_, _, _)
SqrtIter(n, lo, hi) ==
  IF lo >= hi THEN lo
  ELSE LET mid == (lo + hi + 1) \div 2
       IN IF mid * mid <= n THEN SqrtIter(n, mid, hi) ELSE SqrtIter(n, lo, mid - 1)

\* std::sqrt, rounded down (n < 2^31)
Sqrt(n) == SqrtIter(n, 0, 46340)

\* dx*dx + dy*dy < r2, with r2 in whole units squared.  The first two
\* conjuncts are implied by the third; they keep the products inside the
\* integers of the model checker.
Dist2Less(dx, dy, r2) ==
  /\ Abs(dx) < U(Sqrt(r2) + 1)
  /\ Abs(dy) < U(Sqrt(r2) + 1)
  /\ dx * dx + dy * dy < r2 * FPS * FPS

\* std::sqrt(dx*dx + dy*dy) <= r, with r in whole units, in exact arithmetic
DistAtMost(dx, dy, r) ==
  /\ Abs(dx) <= U(r)
  /\ Abs(dy) <= U(r)
  /\ dx * dx + dy * dy <= U(r) * U(r)

-----------------------------------------------------------------------------
(* EnemyTarget *)

\* faulty variant: the id is the target's index in the vector
EnemyTarget_IndexId(x, y, speedX, speedY) ==
  [ref |-> nextRef, id |-> Len(enemyTargets), x |-> x, y |-> y,
   speedX |-> speedX, speedY |-> speedY, isActive |-> TRUE]

EnemyTarget(x, y, speedX, speedY) ==
  [ref |-> nextRef, id |-> nextID, x |-> x, y |-> y,
   speedX |-> speedX, speedY |-> speedY, isActive |-> TRUE]

\* faulty variant: the left edge is tested too, as for a missile
TargetOutOfField_Left(x, y) ==
  x < 0 \/ x > U(SCREEN_WIDTH) \/ y < 0 \/ y > U(SCREEN_HEIGHT)

TargetOutOfField(x, y) ==
  x > U(SCREEN_WIDTH) \/ y < 0 \/ y > U(SCREEN_HEIGHT)

\* faulty variant: the update tests the position without moving the target
EnemyTarget_update_Still(t, dt) ==
  [t EXCEPT !.isActive = IF TargetOutOfField(t.x, t.y) THEN FALSE ELSE @]

EnemyTarget_update(t, dt) ==
  LET x == t.x + t.speedX * dt
      y == t.y + t.speedY * dt
  IN [t EXCEPT !.x = x, !.y = y,
               !.isActive = IF TargetOutOfField(x, y) THEN FALSE ELSE @]

EnemyTarget_setInactive(t) == [t EXCEPT !.isActive = FALSE]

-----------------------------------------------------------------------------
(* DefenseMissile *)

\* target.lock(): the indices in ts of the object the weak_ptr refers to
\* (none when the weak_ptr is empty or the object is no longer owned by ts)
Lock(m, ts) == {i \in 1..Len(ts) : ts[i].ref \in m.target}

\* faulty variant: the direction is not scaled to speed
Velocity_Unit(dx, dy, speed) ==
  LET k == (Max(Abs(dx), Abs(dy)) \div 32768) + 1
      rx == TruncDiv(dx, k)
      ry == TruncDiv(dy, k)
      distance == Sqrt(rx * rx + ry * ry)
  IN <<RoundDiv(rx, distance), RoundDiv(ry, distance)>>

\* the direction to (dx, dy) scaled to speed; dx and dy are scaled down
\* together first when a square would leave the integers
Velocity(dx, dy, speed) ==
  LET k == (Max(Abs(dx), Abs(dy)) \div 32768) + 1
      rx == TruncDiv(dx, k)
      ry == TruncDiv(dy, k)
      distance == Sqrt(rx * rx + ry * ry)
  IN <<RoundDiv(rx * speed, distance), RoundDiv(ry * speed, distance)>>

\* distance > 0.01f: on the 1/FPS grid two points are at distance 0 or at
\* least 1/FPS > 0.01
FartherThanEpsilon(dx, dy) == dx # 0 \/ dy # 0

updateVelocity(m, ts) ==
  IF Lock(m, ts) = {} THEN m
  ELSE LET t == ts[CHOOSE i \in Lock(m, ts) : TRUE]
           dx == t.x - m.x
           dy == t.y - m.y
           v == Velocity(dx, dy, m.speed)
       IN IF FartherThanEpsilon(dx, dy)
          THEN [m EXCEPT !.velocityX = v[1], !.velocityY = v[2]]
          ELSE m

DefenseMissile(x, y, target, speed, ts) ==
  updateVelocity([mid |-> nextMid, x |-> x, y |-> y, speed |-> speed,
                  velocityX |-> 0, velocityY |-> 0, isActive |-> TRUE,
                  target |-> {target}], ts)

\* faulty variant: the left edge is not tested, as for a target
MissileOutOfField_NoLeft(x, y) ==
  x > U(SCREEN_WIDTH) \/ y < 0 \/ y > U(SCREEN_HEIGHT)

MissileOutOfField(x, y) ==
  x < 0 \/ x > U(SCREEN_WIDTH) \/ y < 0 \/ y > U(SCREEN_HEIGHT)

\* faulty variant: the target's active flag is not tested
Steer_Always(m, ts) == updateVelocity(m, ts)

\* lines 75-83: steer toward an active target, drop an inactive one
Steer(m, ts) ==
  IF Lock(m, ts) = {} THEN m
  ELSE IF ts[CHOOSE i \in Lock(m, ts) : TRUE].isActive
       THEN updateVelocity(m, ts)
       ELSE [m EXCEPT !.target = {}]

DefenseMissile_update(m, ts, dt) ==
  LET s == Steer(m, ts)
      x == s.x + s.velocityX * dt
      y == s.y + s.velocityY * dt
  IN [s EXCEPT !.x = x, !.y = y,
               !.isActive = IF MissileOutOfField(x, y) THEN FALSE ELSE @]

DefenseMissile_setInactive(m) == [m EXCEPT !.isActive = FALSE]

-----------------------------------------------------------------------------
(* updateEntities, lines 287-328, one step per loop *)

UpdateTargets(ts, dt) == [i \in 1..Len(ts) |-> EnemyTarget_update(ts[i], dt)]

\* faulty variant: the missiles are updated before the targets, so they
\* steer at the positions the targets had before their move
UpdateMissiles_BeforeTargets(ms, ts, dt) ==
  LET old == [j \in 1..Len(ts) |->
                [ts[j] EXCEPT !.x = @ - ts[j].speedX * dt,
                              !.y = @ - ts[j].speedY * dt]]
  IN [i \in 1..Len(ms) |-> DefenseMissile_update(ms[i], old, dt)]

UpdateMissiles(ms, ts, dt) ==
  [i \in 1..Len(ms) |-> DefenseMissile_update(ms[i], ts, dt)]

\* faulty variant: the missile is tested against every target of the
\* collection, and hits the first active one in reach
CollideOne_AnyTarget(ms, ts, i) ==
  LET near == {k \in 1..Len(ts) :
                 /\ ts[k].isActive
                 /\ Dist2Less(ms[i].x - ts[k].x, ms[i].y - ts[k].y, collisionRadius2)}
  IN IF ~ms[i].isActive \/ near = {} THEN <<ms, ts>>
     ELSE LET j == CHOOSE k \in near : \A n \in near : k <= n
          IN <<[ms EXCEPT ![i] = DefenseMissile_setInactive(@)],
               [ts EXCEPT ![j] = EnemyTarget_setInactive(@)]>>

\* faulty variant: a hit deactivates the missile only
CollideOne_MissileOnly(ms, ts, i) ==
  IF ~ms[i].isActive \/ Lock(ms[i], ts) = {} THEN <<ms, ts>>
  ELSE LET j == CHOOSE k \in Lock(ms[i], ts) : TRUE
       IN IF ts[j].isActive
             /\ Dist2Less(ms[i].x - ts[j].x, ms[i].y - ts[j].y, collisionRadius2)
          THEN <<[ms EXCEPT ![i] = DefenseMissile_setInactive(@)], ts>>
          ELSE <<ms, ts>>

\* faulty variant: the target's active flag is not tested (line 305 missing)
CollideOne_DeadTarget(ms, ts, i) ==
  IF ~ms[i].isActive \/ Lock(ms[i], ts) = {} THEN <<ms, ts>>
  ELSE LET j == CHOOSE k \in Lock(ms[i], ts) : TRUE
       IN IF Dist2Less(ms[i].x - ts[j].x, ms[i].y - ts[j].y, collisionRadius2)
          THEN <<[ms EXCEPT ![i] = DefenseMissile_setInactive(@)],
                 [ts EXCEPT ![j] = EnemyTarget_setInactive(@)]>>
          ELSE <<ms, ts>>

\* faulty variant: the missile's active flag is not tested (line 302 missing)
CollideOne_DeadMissile(ms, ts, i) ==
  IF Lock(ms[i], ts) = {} THEN <<ms, ts>>
  ELSE LET j == CHOOSE k \in Lock(ms[i], ts) : TRUE
       IN IF ts[j].isActive
             /\ Dist2Less(ms[i].x - ts[j].x, ms[i].y - ts[j].y, collisionRadius2)
          THEN <<[ms EXCEPT ![i] = DefenseMissile_setInactive(@)],
                 [ts EXCEPT ![j] = EnemyTarget_setInactive(@)]>>
          ELSE <<ms, ts>>

\* the body of the collision loop for missile i: <<missiles, targets>>
CollideOne(ms, ts, i) ==
  IF ~ms[i].isActive \/ Lock(ms[i], ts) = {} THEN <<ms, ts>>
  ELSE LET j == CHOOSE k \in Lock(ms[i], ts) : TRUE
       IN IF ts[j].isActive
             /\ Dist2Less(ms[i].x - ts[j].x, ms[i].y - ts[j].y, collisionRadius2)
          THEN <<[ms EXCEPT ![i] = DefenseMissile_setInactive(@)],
                 [ts EXCEPT ![j] = EnemyTarget_setInactive(@)]>>
          ELSE <<ms, ts>>

RECURSIVE CollisionLoop(_, _, _)
CollisionLoop(ms, ts, i) ==
  IF i > Len(ms) THEN <<ms, ts>>
  ELSE LET r == CollideOne(ms, ts, i) IN CollisionLoop(r[1], r[2], i + 1)

CollisionPass(ms, ts) == CollisionLoop(ms, ts, 1)

IsActiveEntity(e) == e.isActive

\* faulty variant: remove_if without the erase, nothing leaves the vector
RemoveInactive_Keep(s) == s

\* faulty variant: the vector is cut at its first inactive element
RemoveInactive_Cut(s) ==
  LET dead == {i \in 1..Len(s) : ~s[i].isActive}
  IN IF dead = {} THEN s
     ELSE SubSeq(s, 1, (CHOOSE i \in dead : \A k \in dead : i <= k) - 1)

RemoveInactive(s) == SelectSeq(s, IsActiveEntity)

world == <<enemyTargets, defenseMissiles, nextID, nextRef, nextMid, created>>
driver == <<enemySpawnTimer, detectionTimer, redraw, running, ticks, fires>>

UE_Lock ==
  /\ pc = "ue_lock"
  /\ ~dataMutex
  /\ dataMutex' = TRUE
  /\ pc' = "ue_targets"
  /\ UNCHANGED <<world, driver, ret, deltaTime, calls>>

UE_Targets ==
  /\ pc = "ue_targets"
  /\ enemyTargets' = UpdateTargets(enemyTargets, deltaTime)
  /\ pc' = "ue_missiles"
  /\ UNCHANGED <<defenseMissiles, nextID, nextRef, nextMid, created, driver,
                 dataMutex, ret, deltaTime, calls>>

UE_Missiles ==
  /\ pc = "ue_missiles"
  /\ defenseMissiles' = UpdateMissiles(defenseMissiles, enemyTargets, deltaTime)
  /\ pc' = "ue_collide"
  /\ UNCHANGED <<enemyTargets, nextID, nextRef, nextMid, created, driver,
                 dataMutex, ret, deltaTime, calls>>

UE_Collide ==
  /\ pc = "ue_collide"
  /\ LET r == CollisionPass(defenseMissiles, enemyTargets)
     IN /\ defenseMissiles' = r[1]
        /\ enemyTargets' = r[2]
  /\ pc' = "ue_compact"
  /\ UNCHANGED <<nextID, nextRef, nextMid, created, driver,
                 dataMutex, ret, deltaTime, calls>>

\* both erase calls, then the lock_guard's destructor
UE_Compact ==
  /\ pc = "ue_compact"
  /\ enemyTargets' = RemoveInactive(enemyTargets)
  /\ defenseMissiles' = RemoveInactive(defenseMissiles)
  /\ pc' = "ue_unlock"
  /\ UNCHANGED <<nextID, nextRef, nextMid, created, driver,
                 dataMutex, ret, deltaTime, calls>>

UE_Unlock ==
  /\ pc = "ue_unlock"
  /\ dataMutex' = FALSE
  /\ pc' = ret
  /\ UNCHANGED <<world, driver, ret, deltaTime, calls>>

updateEntities ==
  UE_Lock \/ UE_Targets \/ UE_Missiles \/ UE_Collide \/ UE_Compact \/ UE_Unlock

-----------------------------------------------------------------------------
(* launchMissile and detectionTask *)

\* defenseMissiles after launchMissile(startX, startY, target)
launchMissile(ms, startX, startY, target, ts) ==
  Append(ms, DefenseMissile(startX, startY, target, missileSpeed, ts))

InDetectionRange(t) == DistAtMost(t.x - sensorX, t.y - sensorY, detectionRange)

\* the indices of the targets the loop of detectionTask finds in range
Detected(ts) == {i \in 1..Len(ts) : InDetectionRange(ts[i])}

\* faulty variant: the scan keeps the last target in range
FirstDetected_Last(ts) == CHOOSE i \in Detected(ts) : \A j \in Detected(ts) : i >= j

FirstDetected(ts) == CHOOSE i \in Detected(ts) : \A j \in Detected(ts) : i <= j

DT_Lock ==
  /\ pc = "dt_lock"
  /\ ~dataMutex
  /\ dataMutex' = TRUE
  /\ pc' = "dt_scan"
  /\ UNCHANGED <<world, driver, ret, deltaTime, calls>>

DT_Scan ==
  /\ pc = "dt_scan"
  /\ IF Detected(enemyTargets) = {}
     THEN UNCHANGED <<defenseMissiles, nextMid>>
     ELSE /\ defenseMissiles' =
               launchMissile(defenseMissiles, sensorX, sensorY,
                             enemyTargets[FirstDetected(enemyTargets)].ref,
                             enemyTargets)
          /\ nextMid' = nextMid + 1
  /\ pc' = "dt_unlock"
  /\ UNCHANGED <<enemyTargets, nextID, nextRef, created, driver,
                 dataMutex, ret, deltaTime, calls>>

DT_Unlock ==
  /\ pc = "dt_unlock"
  /\ dataMutex' = FALSE
  /\ pc' = ret
  /\ UNCHANGED <<world, driver, ret, deltaTime, calls>>

detectionTask == DT_Lock \/ DT_Scan \/ DT_Unlock

-----------------------------------------------------------------------------
(* main, lines 188-273 *)

NoEntities ==
  /\ enemyTargets = <<>>
  /\ defenseMissiles = <<>>
  /\ nextID = 0
  /\ nextRef = 0
  /\ nextMid = 0
  /\ created = <<>>
  /\ dataMutex = FALSE
  /\ deltaTime = 1
  /\ enemySpawnTimer = 0
  /\ detectionTimer = 0
  /\ redraw = TRUE
  /\ running = TRUE
  /\ ticks = 0
  /\ fires = 0
  /\ calls = 0

Init ==
  /\ NoEntities
  /\ pc = "wait"
  /\ ret = "wait"

\* faulty variant: the spawn accumulator fires only when it exceeds the
\* interval
EvTimer_Strict ==
  /\ pc = "wait"
  /\ ticks < MaxTicks
  /\ ticks' = ticks + 1
  /\ IF enemySpawnTimer + 1 > enemySpawnInterval
     THEN /\ enemySpawnTimer' = enemySpawnTimer + 1 - enemySpawnInterval
          /\ pc' = "spawn_lock"
     ELSE /\ enemySpawnTimer' = enemySpawnTimer + 1
          /\ pc' = "detect_timer"
  /\ UNCHANGED <<world, dataMutex, ret, deltaTime, detectionTimer, redraw,
                 running, fires, calls>>

\* ALLEGRO_EVENT_TIMER, lines 203-210
EvTimer ==
  /\ pc = "wait"
  /\ ticks < MaxTicks
  /\ ticks' = ticks + 1
  /\ IF enemySpawnTimer + 1 >= enemySpawnInterval
     THEN /\ enemySpawnTimer' = enemySpawnTimer + 1 - enemySpawnInterval
          /\ pc' = "spawn_lock"
     ELSE /\ enemySpawnTimer' = enemySpawnTimer + 1
          /\ pc' = "detect_timer"
  /\ UNCHANGED <<world, dataMutex, ret, deltaTime, detectionTimer, redraw,
                 running, fires, calls>>

Spawn_Lock ==
  /\ pc = "spawn_lock"
  /\ ~dataMutex
  /\ dataMutex' = TRUE
  /\ pc' = "spawn_emplace"
  /\ UNCHANGED <<world, driver, ret, deltaTime, calls>>

\* lines 213-220
Spawn_Emplace ==
  /\ pc = "spawn_emplace"
  /\ \E y \in SpawnYs, speedX \in SpawnSpeeds :
       LET t == EnemyTarget(0, U(y), speedX, 0)
       IN /\ enemyTargets' = Append(enemyTargets, t)
          /\ created' = Append(created, t.id)
  /\ nextID' = nextID + 1
  /\ nextRef' = nextRef + 1
  /\ pc' = "spawn_unlock"
  /\ UNCHANGED <<defenseMissiles, nextMid, driver, dataMutex, ret, deltaTime, calls>>

Spawn_Unlock ==
  /\ pc = "spawn_unlock"
  /\ dataMutex' = FALSE
  /\ pc' = "detect_timer"
  /\ UNCHANGED <<world, driver, ret, deltaTime, calls>>

\* lines 225-228
DetectTimer ==
  /\ pc = "detect_timer"
  /\ IF detectionTimer + 1 >= detectionInterval
     THEN /\ detectionTimer' = detectionTimer + 1 - detectionInterval
          /\ pc' = "dt_lock"
          /\ ret' = "update_call"
     ELSE /\ detectionTimer' = detectionTimer + 1
          /\ pc' = "update_call"
          /\ ret' = ret
  /\ UNCHANGED <<world, dataMutex, deltaTime, enemySpawnTimer, redraw, running,
                 ticks, fires, calls>>

\* line 232, with deltaTime = 1.0f / FPS
UpdateCall ==
  /\ pc = "update_call"
  /\ deltaTime' = 1
  /\ ret' = "tick_end"
  /\ pc' = "ue_lock"
  /\ UNCHANGED <<world, driver, dataMutex, calls>>

\* line 234
TickEnd ==
  /\ pc = "tick_end"
  /\ redraw' = TRUE
  /\ pc' = "render_check"
  /\ UNCHANGED <<world, dataMutex, ret, deltaTime, enemySpawnTimer,
                 detectionTimer, running, ticks, fires, calls>>

\* ALLEGRO_EVENT_DISPLAY_CLOSE or ALLEGRO_KEY_ESCAPE, lines 236-241
EvQuit ==
  /\ pc = "wait"
  /\ running' = FALSE
  /\ pc' = "render_check"
  /\ UNCHANGED <<world, dataMutex, ret, deltaTime, enemySpawnTimer,
                 detectionTimer, redraw, ticks, fires, calls>>

\* ALLEGRO_KEY_SPACE, lines 242-245
EvKeySpace ==
  /\ pc = "wait"
  /\ ticks \in FireTicks
  /\ fires < MaxFires
  /\ fires' = fires + 1
  /\ pc' = "fire_lock"
  /\ UNCHANGED <<world, dataMutex, ret, deltaTime, enemySpawnTimer,
                 detectionTimer, redraw, running, ticks, calls>>

Fire_Lock ==
  /\ pc = "fire_lock"
  /\ ~dataMutex
  /\ dataMutex' = TRUE
  /\ pc' = "fire_body"
  /\ UNCHANGED <<world, driver, ret, deltaTime, calls>>

\* faulty variant: the missile is launched at enemyTargets.back()
Fire_Body_Back ==
  /\ pc = "fire_body"
  /\ IF enemyTargets = <<>>
     THEN UNCHANGED <<defenseMissiles, nextMid>>
     ELSE /\ defenseMissiles' =
               launchMissile(defenseMissiles, U(SCREEN_WIDTH), U(SCREEN_HEIGHT) \div 2,
                             enemyTargets[Len(enemyTargets)].ref, enemyTargets)
          /\ nextMid' = nextMid + 1
  /\ pc' = "fire_unlock"
  /\ UNCHANGED <<enemyTargets, nextID, nextRef, created, driver,
                 dataMutex, ret, deltaTime, calls>>

\* lines 246-251
Fire_Body ==
  /\ pc = "fire_body"
  /\ IF enemyTargets = <<>>
     THEN UNCHANGED <<defenseMissiles, nextMid>>
     ELSE /\ defenseMissiles' =
               launchMissile(defenseMissiles, U(SCREEN_WIDTH), U(SCREEN_HEIGHT) \div 2,
                             Head(enemyTargets).ref, enemyTargets)
          /\ nextMid' = nextMid + 1
  /\ pc' = "fire_unlock"
  /\ UNCHANGED <<enemyTargets, nextID, nextRef, created, driver,
                 dataMutex, ret, deltaTime, calls>>

\* faulty variant: the SPACE key's block ends without releasing the lock
Fire_Unlock_Keep ==
  /\ pc = "fire_unlock"
  /\ pc' = "render_check"
  /\ UNCHANGED <<world, driver, dataMutex, ret, deltaTime, calls>>

Fire_Unlock ==
  /\ pc = "fire_unlock"
  /\ dataMutex' = FALSE
  /\ pc' = "render_check"
  /\ UNCHANGED <<world, driver, ret, deltaTime, calls>>

\* the loop's next iteration, or its end
LoopTop == IF running THEN "wait" ELSE "done"

\* line 256, the queue not empty or redraw not set
Render_Skip ==
  /\ pc = "render_check"
  /\ pc' = LoopTop
  /\ UNCHANGED <<world, driver, dataMutex, ret, deltaTime, calls>>

\* lines 256-263 and 333-335: drawDetectionRange reads no entity
Render_Begin ==
  /\ pc = "render_check"
  /\ redraw
  /\ redraw' = FALSE
  /\ pc' = "draw_lock"
  /\ UNCHANGED <<world, dataMutex, ret, deltaTime, enemySpawnTimer,
                 detectionTimer, running, ticks, fires, calls>>

Draw_Lock ==
  /\ pc = "draw_lock"
  /\ ~dataMutex
  /\ dataMutex' = TRUE
  /\ pc' = "draw_body"
  /\ UNCHANGED <<world, driver, ret, deltaTime, calls>>

\* lines 338-346: reads both collections
Draw_Body ==
  /\ pc = "draw_body"
  /\ pc' = "draw_unlock"
  /\ UNCHANGED <<world, driver, dataMutex, ret, deltaTime, calls>>

Draw_Unlock ==
  /\ pc = "draw_unlock"
  /\ dataMutex' = FALSE
  /\ pc' = "hud"
  /\ UNCHANGED <<world, driver, ret, deltaTime, calls>>

\* lines 266-271: reads enemyTargets.size() and defenseMissiles.size()
Draw_HUD ==
  /\ pc = "hud"
  /\ pc' = LoopTop
  /\ UNCHANGED <<world, driver, dataMutex, ret, deltaTime, calls>>

main ==
  \/ EvTimer \/ Spawn_Lock \/ Spawn_Emplace \/ Spawn_Unlock
  \/ DetectTimer \/ UpdateCall \/ TickEnd
  \/ EvQuit
  \/ EvKeySpace \/ Fire_Lock \/ Fire_Body \/ Fire_Unlock
  \/ Render_Skip \/ Render_Begin \/ Draw_Lock \/ Draw_Body \/ Draw_Unlock \/ Draw_HUD

Next == main \/ detectionTask \/ updateEntities

Spec == Init /\ [][Next]_vars

-----------------------------------------------------------------------------
(* One long run of main: the same loop with the values of rand() fixed *)

\* ALLEGRO_EVENT_TIMER, lines 203-210
Run_EvTimer ==
  /\ pc = "wait"
  /\ ticks < RunTicks
  /\ ticks' = ticks + 1
  /\ IF enemySpawnTimer + 1 >= enemySpawnInterval
     THEN /\ enemySpawnTimer' = enemySpawnTimer + 1 - enemySpawnInterval
          /\ pc' = "spawn_lock"
     ELSE /\ enemySpawnTimer' = enemySpawnTimer + 1
          /\ pc' = "detect_timer"
  /\ UNCHANGED <<world, dataMutex, ret, deltaTime, detectionTimer, redraw,
                 running, fires, calls>>

\* lines 213-220
Run_Spawn ==
  /\ pc = "spawn_emplace"
  /\ LET p == RunTargets[nextRef + 1]
         t == EnemyTarget(0, U(p[1]), p[2], 0)
     IN /\ enemyTargets' = Append(enemyTargets, t)
        /\ created' = Append(created, t.id)
  /\ nextID' = nextID + 1
  /\ nextRef' = nextRef + 1
  /\ pc' = "spawn_unlock"
  /\ UNCHANGED <<defenseMissiles, nextMid, driver, dataMutex, ret, deltaTime, calls>>

\* ALLEGRO_KEY_SPACE, line 242
Run_KeySpace ==
  /\ pc = "wait"
  /\ ticks \in RunFireTicks
  /\ fires < MaxFires
  /\ fires' = fires + 1
  /\ pc' = "fire_lock"
  /\ UNCHANGED <<world, dataMutex, ret, deltaTime, enemySpawnTimer,
                 detectionTimer, redraw, running, ticks, calls>>

RunNext ==
  \/ Run_EvTimer \/ Spawn_Lock \/ Run_Spawn \/ Spawn_Unlock
  \/ DetectTimer \/ UpdateCall \/ TickEnd
  \/ EvQuit
  \/ Run_KeySpace \/ Fire_Lock \/ Fire_Body \/ Fire_Unlock
  \/ Render_Skip \/ Render_Begin \/ Draw_Lock \/ Draw_Body \/ Draw_Unlock \/ Draw_HUD
  \/ detectionTask \/ updateEntities

RunSpec == Init /\ [][RunNext]_vars

-----------------------------------------------------------------------------
(* Test harness: targets are constructed, then missiles launched at them,   *)
(* then updateEntities and detectionTask are called, at most MaxTestCalls   *)
(* calls in all.                                                            *)

TestInit ==
  /\ NoEntities
  /\ pc = "t_targets"
  /\ ret = "t_act"

\* enemyTargets.emplace_back(std::make_shared<EnemyTarget>(x, y, speedX, speedY))
TestSpawn ==
  /\ pc = "t_targets"
  /\ calls < MaxTestCalls
  /\ \E p \in TestTargets :
       LET t == EnemyTarget(U(p[1]), U(p[2]), p[3], p[4])
       IN /\ enemyTargets' = Append(enemyTargets, t)
          /\ created' = Append(created, t.id)
  /\ nextID' = nextID + 1
  /\ nextRef' = nextRef + 1
  /\ calls' = calls + 1
  /\ UNCHANGED <<defenseMissiles, nextMid, driver, dataMutex, pc, ret, deltaTime>>

\* launchMissile(startX, startY, target) with a target of the collection
TestLaunch ==
  /\ pc \in {"t_targets", "t_missiles"}
  /\ calls < MaxTestCalls
  /\ \E s \in TestStarts, i \in 1..Len(enemyTargets) :
       defenseMissiles' = launchMissile(defenseMissiles, U(s[1]), U(s[2]),
                                        enemyTargets[i].ref, enemyTargets)
  /\ nextMid' = nextMid + 1
  /\ calls' = calls + 1
  /\ pc' = "t_missiles"
  /\ UNCHANGED <<enemyTargets, nextID, nextRef, created, driver, dataMutex,
                 ret, deltaTime>>

\* updateEntities(dt)
TestUpdate ==
  /\ pc \in {"t_targets", "t_missiles", "t_act"}
  /\ calls < MaxTestCalls
  /\ \E dt \in TestDts : deltaTime' = dt
  /\ calls' = calls + 1
  /\ ret' = "t_act"
  /\ pc' = "ue_lock"
  /\ UNCHANGED <<world, driver, dataMutex>>

\* detectionTask()
TestDetect ==
  /\ pc \in {"t_targets", "t_missiles", "t_act"}
  /\ calls < MaxTestCalls
  /\ calls' = calls + 1
  /\ ret' = "t_act"
  /\ pc' = "dt_lock"
  /\ UNCHANGED <<world, driver, dataMutex, deltaTime>>

TestNext ==
  \/ TestSpawn \/ TestLaunch \/ TestUpdate \/ TestDetect
  \/ detectionTask \/ updateEntities

TestSpec == TestInit /\ [][TestNext]_vars

-----------------------------------------------------------------------------
(* Vocabulary of the properties *)

Targets == 1..Len(enemyTargets)
Missiles == 1..Len(defenseMissiles)
TargetRefs(ts) == {ts[i].ref : i \in 1..Len(ts)}
MissileIds(ms) == {ms[i].mid : i \in 1..Len(ms)}

\* missile i refers to target j, which is still in the collection
Tracks(i, j) == enemyTargets[j].ref \in defenseMissiles[i].target

\* squared distance of missile i and target j below 225 (15 units)
Within15(i, j) ==
  LET dx == defenseMissiles[i].x - enemyTargets[j].x
      dy == defenseMissiles[i].y - enemyTargets[j].y
  IN /\ Abs(dx) < 900 /\ Abs(dy) < 900
     /\ dx * dx + dy * dy < 225 * 3600

\* after the updates of a call: missile i and the target j it tracks are
\* both active and closer than 15 units
Meets(i, j) ==
  /\ defenseMissiles[i].isActive
  /\ Tracks(i, j)
  /\ enemyTargets[j].isActive
  /\ Within15(i, j)

\* inside the field [0,800] x [0,600]
InField(e) == e.x >= 0 /\ e.x <= 48000 /\ e.y >= 0 /\ e.y <= 36000

\* compaction removes what is inactive
InactiveLeave ==
  pc = "ue_compact" =>
    /\ \A i \in Missiles : ~defenseMissiles[i].isActive =>
          defenseMissiles[i].mid \notin MissileIds(defenseMissiles')
    /\ \A j \in Targets : ~enemyTargets[j].isActive =>
          enemyTargets[j].ref \notin TargetRefs(enemyTargets')

\* compaction keeps what is active
ActiveStay ==
  pc = "ue_compact" =>
    /\ \A i \in Missiles : defenseMissiles[i].isActive =>
          defenseMissiles[i].mid \in MissileIds(defenseMissiles')
    /\ \A j \in Targets : enemyTargets[j].isActive =>
          enemyTargets[j].ref \in TargetRefs(enemyTargets')

-----------------------------------------------------------------------------
(* C1 *)

\* C1 as claimed: a missile and the target it tracks that are both active and
\* closer than 15 units after the updates are both inactive after the
\* collision pass, and both gone when updateEntities returns.
C1_AsClaimed ==
  [][ /\ pc = "ue_collide" =>
           \A i \in Missiles, j \in Targets : Meets(i, j) =>
              /\ ~defenseMissiles'[i].isActive
              /\ ~enemyTargets'[j].isActive
      /\ InactiveLeave ]_vars

\* C1, amended: the target is inactive after the collision pass, and so is
\* the earliest such missile in collection order; both are gone when
\* updateEntities returns.  (A later missile that meets the same target stays
\* active.)
C1_Collision ==
  [][ /\ pc = "ue_collide" =>
           \A i \in Missiles, j \in Targets : Meets(i, j) =>
              /\ ~enemyTargets'[j].isActive
              /\ (\A k \in 1..(i - 1) : ~Meets(k, j)) => ~defenseMissiles'[i].isActive
      /\ InactiveLeave ]_vars

\* a missile inside the field and its target, closer than 15 units, are both
\* inactive after the collision pass
C1_Witness ==
  /\ pc = "ue_compact"
  /\ \E i \in Missiles, j \in Targets :
       /\ Tracks(i, j) /\ Within15(i, j) /\ InField(defenseMissiles[i])
       /\ ~defenseMissiles[i].isActive
       /\ ~enemyTargets[j].isActive

-----------------------------------------------------------------------------
(* C2 *)

\* the positions inside updateEntities between the first update and the end
\* of compaction
InsideUpdate == {"ue_missiles", "ue_collide", "ue_compact"}

\* C2: outside updateEntities, and when it returns, every target and every
\* missile of the collections is active.
C2_AllActive ==
  pc \notin InsideUpdate =>
    /\ \A j \in Targets : enemyTargets[j].isActive
    /\ \A i \in Missiles : defenseMissiles[i].isActive

\* updateEntities returns after it has removed a target and a missile
C2_Witness ==
  /\ pc = "tick_end"
  /\ Len(enemyTargets) < nextRef
  /\ Len(defenseMissiles) < nextMid

-----------------------------------------------------------------------------
(* C3 *)

\* target j is at distance <= 500 of the sensor (800,300)
InRange(ts, j) ==
  LET dx == ts[j].x - 48000
      dy == ts[j].y - 18000
  IN /\ Abs(dx) <= 30000 /\ Abs(dy) <= 30000
     /\ dx * dx + dy * dy <= 900000000

\* C3: detectionTask appends one missile if some target is in range and none
\* otherwise; the missile starts at the sensor and tracks the first target in
\* range; the missiles already there and the targets are left as they are.
C3_Detection ==
  [][ pc = "dt_scan" =>
        LET n == Len(defenseMissiles)
            hit == {j \in Targets : InRange(enemyTargets, j)}
        IN /\ enemyTargets' = enemyTargets
           /\ SubSeq(defenseMissiles', 1, n) = defenseMissiles
           /\ hit = {} => Len(defenseMissiles') = n
           /\ hit # {} =>
                /\ Len(defenseMissiles') = n + 1
                /\ defenseMissiles'[n + 1].x = 48000
                /\ defenseMissiles'[n + 1].y = 18000
                /\ defenseMissiles'[n + 1].isActive
                /\ \E j \in hit :
                     /\ \A k \in hit : j <= k
                     /\ defenseMissiles'[n + 1].target = {enemyTargets[j].ref} ]_vars

\* detectionTask has launched one missile with two targets in range, at the
\* second target of the collection, the first being out of range
C3_Witness ==
  /\ pc = "dt_unlock"
  /\ Len(enemyTargets) = 3
  /\ ~InRange(enemyTargets, 1) /\ InRange(enemyTargets, 2) /\ InRange(enemyTargets, 3)
  /\ Len(defenseMissiles) = 1
  /\ defenseMissiles[1].target = {enemyTargets[2].ref}

-----------------------------------------------------------------------------
(* C4 *)

\* missile m has a target that is in the collection and active
Guided(m, ts) == \E j \in 1..Len(ts) : ts[j].ref \in m.target /\ ts[j].isActive

\* C4: a missile whose target is inactive or gone keeps its velocity in every
\* step, refers to no other target, and stays without an active target.
C4_Ballistic ==
  [][ \A i \in Missiles, k \in 1..Len(defenseMissiles') :
        (defenseMissiles[i].mid = defenseMissiles'[k].mid
           /\ ~Guided(defenseMissiles[i], enemyTargets)) =>
          /\ defenseMissiles'[k].velocityX = defenseMissiles[i].velocityX
          /\ defenseMissiles'[k].velocityY = defenseMissiles[i].velocityY
          /\ defenseMissiles'[k].target \subseteq defenseMissiles[i].target
          /\ ~Guided(defenseMissiles'[k], enemyTargets') ]_vars

\* a missile has been updated while the target it refers to is gone from the
\* collection
C4_Witness ==
  /\ pc = "ue_collide"
  /\ \E i \in Missiles :
       /\ defenseMissiles[i].target # {}
       /\ defenseMissiles[i].target \cap TargetRefs(enemyTargets) = {}
       /\ defenseMissiles[i].isActive

-----------------------------------------------------------------------------
(* C5 *)

\* the positions whose step reads or writes enemyTargets or defenseMissiles
Accessing ==
  {"spawn_emplace", "fire_body", "dt_scan", "ue_targets", "ue_missiles",
   "ue_collide", "ue_compact", "draw_body", "hud"}

\* C5: dataMutex is held at every access to the collections, the reads of
\* their sizes for the HUD included.
C5_LockHeld == pc \in Accessing => dataMutex

\* what holds: the mutex is held at every access but the reads of the sizes
C5_LockHeldButHUD == pc \in Accessing \ {"hud"} => dataMutex

-----------------------------------------------------------------------------
(* C6 *)

\* one active stationary target at (100,100), and one missile at (0,100)
\* with speed 200 that tracks it; updateEntities(1) is about to update it
C6_Setup ==
  /\ pc = "ue_missiles"
  /\ deltaTime = 60
  /\ Len(enemyTargets) = 1
  /\ enemyTargets[1].x = 6000 /\ enemyTargets[1].y = 6000
  /\ enemyTargets[1].speedX = 0 /\ enemyTargets[1].speedY = 0
  /\ enemyTargets[1].isActive
  /\ Len(defenseMissiles) = 1
  /\ defenseMissiles[1].x = 0 /\ defenseMissiles[1].y = 6000
  /\ defenseMissiles[1].speed = 200
  /\ defenseMissiles[1].isActive
  /\ Tracks(1, 1)

\* C6 as claimed: after the update with dt = 1 the missile is at (100,100).
C6_AsClaimed ==
  [][ C6_Setup => defenseMissiles'[1].x = 6000 /\ defenseMissiles'[1].y = 6000 ]_vars

\* C6, amended: after the update with dt = 1 the missile is at (200,100),
\* with velocity (200, 0): it moves by speed * dt along +x, past the target.
C6_Homing ==
  [][ C6_Setup =>
        /\ defenseMissiles'[1].x = 12000 /\ defenseMissiles'[1].y = 6000
        /\ defenseMissiles'[1].velocityX = 200 /\ defenseMissiles'[1].velocityY = 0
        /\ defenseMissiles'[1].isActive ]_vars

\* the missile of the setup has been updated with dt = 1
C6_Witness ==
  /\ pc = "ue_collide"
  /\ deltaTime = 60
  /\ calls = 3
  /\ Len(enemyTargets) = 1
  /\ enemyTargets[1].x = 6000 /\ enemyTargets[1].y = 6000
  /\ enemyTargets[1].speedX = 0 /\ enemyTargets[1].speedY = 0
  /\ Len(defenseMissiles) = 1
  /\ defenseMissiles[1].x = 12000 /\ defenseMissiles[1].y = 6000
  /\ Tracks(1, 1)

-----------------------------------------------------------------------------
(* C7 *)

\* deactivated by a collision: inactive after the collision pass and inside
\* the field (a missile that left the field was deactivated by its update)
HitBy(i, j) ==
  /\ Tracks(i, j)
  /\ ~defenseMissiles[i].isActive
  /\ InField(defenseMissiles[i])

\* C7: in one collision pass no target deactivates two missiles; of the
\* missiles that meet the same target only the earliest is deactivated, and
\* the later ones are active and in defenseMissiles when the call returns.
C7_OneHit ==
  [][ /\ pc = "ue_collide" =>
           /\ \A j \in Targets : \A k \in Missiles : Meets(k, j) =>
                (defenseMissiles'[k].isActive <=> \E i \in 1..(k - 1) : Meets(i, j))
           /\ \A j \in Targets :
                Cardinality({i \in Missiles :
                   defenseMissiles[i].isActive /\ Tracks(i, j)
                   /\ ~defenseMissiles'[i].isActive}) <= 1
      /\ ActiveStay ]_vars

\* two missiles met the same target: the first is inactive with the target,
\* the second is still active after the collision pass
C7_Witness ==
  /\ pc = "ue_compact"
  /\ \E j \in Targets : \E i, k \in Missiles :
       /\ i < k
       /\ HitBy(i, j) /\ Within15(i, j)
       /\ Tracks(k, j) /\ Within15(k, j) /\ defenseMissiles[k].isActive
       /\ ~enemyTargets[j].isActive

-----------------------------------------------------------------------------
(* C8 *)

\* C8: the update of a target deactivates it exactly when its new position
\* has x > 800 or y < 0 or y > 600, and such a target is gone when
\* updateEntities returns.
C8_TargetBounds ==
  [][ /\ pc = "ue_targets" =>
           \A j \in Targets : enemyTargets[j].isActive =>
             (~enemyTargets'[j].isActive <=>
                (enemyTargets'[j].x > 48000 \/ enemyTargets'[j].y < 0
                   \/ enemyTargets'[j].y > 36000))
      /\ InactiveLeave ]_vars

\* after the update of the targets: one left the field by y alone and is
\* inactive, one is left of the field at y = 600 and active, one is at x = 800
\* and active
C8_Witness ==
  /\ pc = "ue_missiles"
  /\ \E j \in Targets :
       ~enemyTargets[j].isActive /\ enemyTargets[j].x <= 48000
  /\ \E j \in Targets :
       enemyTargets[j].isActive /\ enemyTargets[j].x < 0 /\ enemyTargets[j].y = 36000
  /\ \E j \in Targets : enemyTargets[j].isActive /\ enemyTargets[j].x = 48000

-----------------------------------------------------------------------------
(* C9 *)

\* C9: the update of a missile deactivates it exactly when its new position
\* is outside [0,800] x [0,600]; such a missile is gone when updateEntities
\* returns; and the collision pass deactivates a target only together with a
\* missile that was active after the updates.
C9_MissileBounds ==
  [][ /\ pc = "ue_missiles" =>
           \A i \in Missiles : defenseMissiles[i].isActive =>
             (~defenseMissiles'[i].isActive <=>
                (defenseMissiles'[i].x < 0 \/ defenseMissiles'[i].x > 48000
                   \/ defenseMissiles'[i].y < 0 \/ defenseMissiles'[i].y > 36000))
      /\ pc = "ue_collide" =>
           \A j \in Targets :
             (enemyTargets[j].isActive /\ ~enemyTargets'[j].isActive) =>
                \E i \in Missiles : Meets(i, j) /\ ~defenseMissiles'[i].isActive
      /\ InactiveLeave ]_vars

\* after the collision pass: a missile that left the field on the left is
\* inactive, closer than 15 units to the target it tracks, and the target is
\* still active
C9_Witness ==
  /\ pc = "ue_compact"
  /\ \E i \in Missiles, j \in Targets :
       /\ Tracks(i, j) /\ Within15(i, j)
       /\ ~defenseMissiles[i].isActive
       /\ defenseMissiles[i].x < 0
       /\ enemyTargets[j].isActive

-----------------------------------------------------------------------------
(* C10 *)

\* C10: the ids given to targets, in creation order, are strictly
\* increasing, so none is given twice.
C10_IdsIncrease ==
  \A a, b \in 1..Len(created) : a < b => created[a] < created[b]

\* a target has been created after an earlier one was removed
C10_Witness ==
  /\ pc = "spawn_unlock"
  /\ Len(created) >= 2
  /\ Len(enemyTargets) < Len(created)

-----------------------------------------------------------------------------
(* C11 *)

\* C11: in every step an inactive entity stays inactive; an entity leaves its
\* collection only by compaction and only when it is inactive; compaction
\* removes every inactive entity and keeps every active one.
C11_Lifecycle ==
  [][ /\ \A j \in Targets, k \in 1..Len(enemyTargets') :
           (enemyTargets[j].ref = enemyTargets'[k].ref /\ ~enemyTargets[j].isActive)
             => ~enemyTargets'[k].isActive
      /\ \A i \in Missiles, k \in 1..Len(defenseMissiles') :
           (defenseMissiles[i].mid = defenseMissiles'[k].mid
              /\ ~defenseMissiles[i].isActive)
             => ~defenseMissiles'[k].isActive
      /\ \A j \in Targets : enemyTargets[j].ref \notin TargetRefs(enemyTargets') =>
           pc = "ue_compact" /\ ~enemyTargets[j].isActive
      /\ \A i \in Missiles :
           defenseMissiles[i].mid \notin MissileIds(defenseMissiles') =>
             pc = "ue_compact" /\ ~defenseMissiles[i].isActive
      /\ InactiveLeave
      /\ ActiveStay ]_vars

\* compaction has removed a target and a missile and has kept a target and a
\* missile
C11_Witness ==
  /\ pc = "ue_unlock"
  /\ Len(enemyTargets) >= 1 /\ Len(enemyTargets) < nextRef
  /\ Len(defenseMissiles) >= 1 /\ Len(defenseMissiles) < nextMid

-----------------------------------------------------------------------------
(* C12 *)

\* C12: a manual fire with no target leaves both collections as they are;
\* with a target it appends one missile, at (800,300) and tracking the first
\* target of the collection, and changes nothing else.
C12_ManualFire ==
  [][ pc = "fire_body" =>
        LET n == Len(defenseMissiles)
        IN /\ enemyTargets' = enemyTargets
           /\ pc' = "fire_unlock"
           /\ enemyTargets = <<>> => defenseMissiles' = defenseMissiles
           /\ enemyTargets # <<>> =>
                /\ Len(defenseMissiles') = n + 1
                /\ SubSeq(defenseMissiles', 1, n) = defenseMissiles
                /\ defenseMissiles'[n + 1].x = 48000
                /\ defenseMissiles'[n + 1].y = 18000
                /\ defenseMissiles'[n + 1].isActive
                /\ defenseMissiles'[n + 1].target = {enemyTargets[1].ref} ]_vars

\* a manual fire with two targets has launched a missile at the first
C12_Witness ==
  /\ pc = "fire_unlock"
  /\ Len(enemyTargets) = 2
  /\ Len(defenseMissiles) = 1
  /\ defenseMissiles[1].x = 48000 /\ defenseMissiles[1].y = 18000
  /\ defenseMissiles[1].target = {enemyTargets[1].ref}

\* a manual fire with no target has left the collections empty
C12_WitnessEmpty ==
  /\ pc = "fire_unlock"
  /\ fires = 1
  /\ enemyTargets = <<>>
  /\ defenseMissiles = <<>>

-----------------------------------------------------------------------------
(* C13 *)

\* C13: a missile refers to at most one target, and to one that has been
\* created in this run; outside the update, collision and compaction steps
\* of updateEntities a reference that resolves (its target is in enemyTargets)
\* resolves to an active target.
C13_References ==
  /\ \A i \in Missiles :
       /\ defenseMissiles[i].target \subseteq 0..(nextRef - 1)
       /\ Cardinality(defenseMissiles[i].target) <= 1
  /\ Cardinality(TargetRefs(enemyTargets)) = Len(enemyTargets)
  /\ pc \notin InsideUpdate =>
       \A i \in Missiles, j \in Targets : Tracks(i, j) => enemyTargets[j].isActive

\* updateEntities has returned with one missile whose target is in the
\* collection and one whose target has been removed
C13_Witness ==
  /\ pc = "tick_end"
  /\ \E i \in Missiles, j \in Targets : Tracks(i, j)
  /\ \E i \in Missiles :
       /\ defenseMissiles[i].target # {}
       /\ defenseMissiles[i].target \cap TargetRefs(enemyTargets) = {}

-----------------------------------------------------------------------------
(* C14 *)

\* the control flow of one timer tick, as pairs of positions
TickOrder ==
  /\ pc = "spawn_lock" => pc' = "spawn_emplace"
  /\ pc = "spawn_emplace" => pc' = "spawn_unlock"
  /\ pc = "spawn_unlock" => pc' = "detect_timer"
  /\ pc = "detect_timer" => pc' \in {"dt_lock", "update_call"}
  /\ (pc = "dt_unlock" /\ ret = "update_call") => pc' = "update_call"
  /\ pc = "update_call" => pc' = "ue_lock"
  /\ pc = "ue_lock" => pc' = "ue_targets"
  /\ pc = "ue_targets" => pc' = "ue_missiles"
  /\ pc = "ue_missiles" => pc' = "ue_collide"
  /\ pc = "ue_collide" => pc' = "ue_compact"
  /\ pc = "ue_compact" => pc' = "ue_unlock"
  /\ (pc = "ue_unlock" /\ ret = "tick_end") => pc' = "tick_end"

\* after the missile updates of a tick, missile i has the velocity that
\* points from where it was before its move to where target j is now, after
\* the target's move (unless the two were at the same place)
SteeredAt(i, j) ==
  LET m == defenseMissiles[i]
      dx == enemyTargets[j].x - (m.x - m.velocityX * deltaTime)
      dy == enemyTargets[j].y - (m.y - m.velocityY * deltaTime)
      k == (Max(Abs(dx), Abs(dy)) \div 32768) + 1
      rx == TruncDiv(dx, k)
      ry == TruncDiv(dy, k)
      d == Sqrt(rx * rx + ry * ry)
  IN \/ dx = 0 /\ dy = 0
     \/ /\ m.velocityX = RoundDiv(rx * 200, d)
        /\ m.velocityY = RoundDiv(ry * 200, d)

\* C14: the steps of a tick run in the order spawn, detectionTask,
\* updateEntities, and those of updateEntities in the order targets,
\* missiles, collision pass, compaction; after the missile updates every
\* guided missile is steered at its target's position after the move; when
\* the tick ends every target has been moved at least once and every
\* missile with a velocity has left the launch point.
C14_TickOrder ==
  [][ /\ TickOrder
      /\ pc = "ue_collide" =>
           \A i \in Missiles, j \in Targets :
             (Tracks(i, j) /\ enemyTargets[j].isActive) => SteeredAt(i, j)
      /\ pc = "tick_end" =>
           /\ \A j \in Targets : enemyTargets[j].x >= enemyTargets[j].speedX
           /\ \A i \in Missiles :
                \/ defenseMissiles[i].x # sensorX \/ defenseMissiles[i].y # sensorY
                \/ defenseMissiles[i].velocityX = 0 /\ defenseMissiles[i].velocityY = 0 ]_vars

\* a tick in which a target was spawned and detectionTask launched a missile
\* is at its end: the target has moved once and the missile has moved
C14_Witness ==
  /\ pc = "tick_end"
  /\ ticks = 360
  /\ \E j \in Targets : enemyTargets[j].x = enemyTargets[j].speedX
  /\ \E i \in Missiles, j \in Targets :
       /\ Tracks(i, j)
       /\ defenseMissiles[i].mid = nextMid - 1
       /\ defenseMissiles[i].x < 48000 /\ defenseMissiles[i].x > 47700


(* C15 *)

\* C15: with a tick of 1/60 s the spawn accumulator fires on exactly the
\* ticks that are multiples of 120 and the detection accumulator on exactly
\* the multiples of 30; a firing accumulator is decreased by its interval;
\* each fires at most once in a tick (one target per spawn, one pass through
\* the detection test), and after every tick each lies in [0, interval).
C15_Accumulators ==
  [][ /\ ticks' # ticks =>
           /\ ticks' = ticks + 1
           /\ pc' = "spawn_lock" <=> ticks' % enemySpawnInterval = 0
           /\ pc' # "spawn_lock" => pc' = "detect_timer"
           /\ enemySpawnTimer' =
                IF pc' = "spawn_lock"
                THEN enemySpawnTimer + 1 - enemySpawnInterval
                ELSE enemySpawnTimer + 1
      /\ pc = "detect_timer" =>
           /\ pc' = "dt_lock" <=> ticks % detectionInterval = 0
           /\ pc' # "dt_lock" => pc' = "update_call"
           /\ detectionTimer' =
                IF pc' = "dt_lock"
                THEN detectionTimer + 1 - detectionInterval
                ELSE detectionTimer + 1
      /\ enemySpawnTimer' # enemySpawnTimer => pc = "wait"
      /\ detectionTimer' # detectionTimer => pc = "detect_timer"
      /\ pc' = "dt_lock" => (pc = "detect_timer" /\ ret' = "update_call")
      /\ Len(created') # Len(created) =>
           (pc = "spawn_emplace" /\ Len(created') = Len(created) + 1)
      /\ pc = "tick_end" =>
           /\ Len(created) = ticks \div enemySpawnInterval
           /\ enemySpawnTimer = ticks % enemySpawnInterval
           /\ detectionTimer = ticks % detectionInterval
           /\ enemySpawnTimer >= 0 /\ enemySpawnTimer < enemySpawnInterval
           /\ detectionTimer >= 0 /\ detectionTimer < detectionInterval ]_vars

\* the tick on which both accumulators fire for the second common time has
\* ended: two targets were spawned and both accumulators are back at zero
C15_Witness ==
  /\ pc = "tick_end"
  /\ ticks = 2 * enemySpawnInterval
  /\ Len(created) = 2
  /\ enemySpawnTimer = 0
  /\ detectionTimer = 0


-----------------------------------------------------------------------------
(* C16 *)

\* missile i is active and closer than 15 units to the active target j,
\* which it does not track
PassesBy(i, j) ==
  /\ defenseMissiles[i].isActive
  /\ enemyTargets[j].isActive
  /\ ~Tracks(i, j)
  /\ Within15(i, j)

\* C16: the collision pass tests a missile only against the target it
\* tracks: a target is deactivated in the pass only if a missile that tracks
\* it meets it, a missile only if it meets the target it tracks; so a
\* missile without a valid reference stays as it is, and a missile that
\* passes a target it does not track leaves it as it is.
C16_TrackedOnly ==
  [][ pc = "ue_collide" =>
        /\ Len(enemyTargets') = Len(enemyTargets)
        /\ Len(defenseMissiles') = Len(defenseMissiles)
        /\ \A j \in Targets :
             (enemyTargets[j].isActive /\ ~enemyTargets'[j].isActive) =>
               \E i \in Missiles : Meets(i, j) /\ ~defenseMissiles'[i].isActive
        /\ \A i \in Missiles :
             (defenseMissiles[i].isActive /\ ~defenseMissiles'[i].isActive) =>
               \E j \in Targets : Meets(i, j) /\ ~enemyTargets'[j].isActive
        /\ \A i \in Missiles :
             Lock(defenseMissiles[i], enemyTargets) = {} =>
               defenseMissiles'[i] = defenseMissiles[i]
        /\ \A i \in Missiles, j \in Targets :
             (PassesBy(i, j) /\ \A k \in Targets : ~Meets(i, k)) =>
               defenseMissiles'[i].isActive ]_vars

\* the collision pass is over; a missile that tracks another target is
\* closer than 15 units to a target, and both are active
C16_Witness ==
  /\ pc = "ue_compact"
  /\ \E i \in Missiles, j, k \in Targets :
       /\ PassesBy(i, j)
       /\ Tracks(i, k) /\ k # j


-----------------------------------------------------------------------------
(* C19 *)

\* C19: whenever the driver launches a missile, from detectionTask or from
\* the SPACE key, the target handed to launchMissile is an active element
\* of enemyTargets at that moment: the new missile tracks an active target
\* of the collection.
C19_LaunchAtActive ==
  [][ Len(defenseMissiles') > Len(defenseMissiles) =>
        /\ pc \in {"dt_scan", "fire_body"}
        /\ Len(defenseMissiles') = Len(defenseMissiles) + 1
        /\ \E j \in Targets :
             /\ enemyTargets[j].isActive
             /\ defenseMissiles'[Len(defenseMissiles')].target = {enemyTargets[j].ref}
             /\ enemyTargets'[j] = enemyTargets[j] ]_vars

\* detectionTask has just launched a missile at the active target at which
\* a missile of the SPACE key is flying too
C19_Witness ==
  /\ pc = "dt_unlock"
  /\ fires = 1
  /\ Len(defenseMissiles) = 2
  /\ \E j \in Targets :
       /\ enemyTargets[j].isActive
       /\ Tracks(1, j) /\ Tracks(2, j)
       /\ defenseMissiles[2].x = sensorX /\ defenseMissiles[2].y = sensorY
       /\ defenseMissiles[1].x < sensorX


-----------------------------------------------------------------------------
(* C20 *)

\* the positions at which the driver is about to acquire dataMutex
Acquiring == {"spawn_lock", "dt_lock", "ue_lock", "fire_lock", "draw_lock"}

\* the positions inside the scope of a lock_guard
Holding ==
  {"spawn_emplace", "spawn_unlock", "dt_scan", "dt_unlock", "ue_targets",
   "ue_missiles", "ue_collide", "ue_compact", "ue_unlock", "fire_body",
   "fire_unlock", "draw_body", "draw_unlock"}

\* C20: the driver never reaches an acquisition of dataMutex while it holds
\* it, so no acquisition blocks; the lock is held exactly inside the scope
\* of a lock_guard, and it is free when the handling of an event is over
\* and the driver waits for the next one.
C20_NoRelock ==
  /\ pc \in Acquiring => ~dataMutex
  /\ dataMutex <=> pc \in Holding
  /\ pc \in {"wait", "render_check", "hud", "done"} => ~dataMutex

\* launchMissile has run under the lock of the SPACE key's block, after
\* detectionTask and updateEntities have taken and released the lock
C20_Witness ==
  /\ pc = "fire_unlock"
  /\ dataMutex
  /\ ticks = 241
  /\ Len(defenseMissiles) = 1
  /\ defenseMissiles[1].x = sensorX


-----------------------------------------------------------------------------
(* C17 *)

\* missile i is active, inside the field, without velocity and without a
\* target it could lock: no update moves it, steers it or deactivates it,
\* and the collision pass skips it
Stuck(i) ==
  /\ defenseMissiles[i].isActive
  /\ InField(defenseMissiles[i])
  /\ defenseMissiles[i].velocityX = 0
  /\ defenseMissiles[i].velocityY = 0
  /\ Lock(defenseMissiles[i], enemyTargets) = {}

\* C17: every launched missile is removed from defenseMissiles after
\* finitely many ticks; so no tick ends with a missile in defenseMissiles
\* that no later tick can change.
C17_EveryMissileLeaves ==
  pc = "tick_end" => \A i \in Missiles : ~Stuck(i)

\* a missile that is stuck stays in defenseMissiles as it is, whatever
\* the driver does next
C17_StuckStays ==
  [][ \A i \in Missiles : Stuck(i) =>
        \E k \in 1..Len(defenseMissiles') :
          /\ defenseMissiles'[k] = defenseMissiles[i]
          /\ \A j \in 1..Len(enemyTargets') :
               enemyTargets'[j].ref \notin defenseMissiles'[k].target ]_vars

-----------------------------------------------------------------------------
(* C18 *)

\* the number of updates target t has had when a tick ends: it is spawned in
\* the tick in which the spawn accumulator fires for the (ref + 1)-th time,
\* and updated in that tick and in every later one
Age(t) == ticks - enemySpawnInterval * (t.ref + 1) + 1

\* no target is in the collection for more ticks than the slowest one needs
\* to cross the field
MaxAge == U(SCREEN_WIDTH) \div 50

====
